---- MODULE Spec2Model ----
(***************************************************************************)
(* A model of the UFCx interface header ffcx/codegeneration/ufcx.h: the    *)
(* version macros, the integral-kind enumeration, the tabulation-kernel    *)
(* signatures and the ufcx_integral / ufcx_expression / ufcx_form records. *)
(* Each part of the header is a small state machine with its own           *)
(* specification; the variables of the other parts stay at their idle      *)
(* values.                                                                 *)
(***************************************************************************)
EXTENDS Integers, Sequences, FiniteSets, TLC

VARIABLES
    \* translation of a use of UFCX_VERSION (ufcx.h:13-24)
    vpc, version, macroBody, tokens,
    \* decoding of one quadrature_permutation code (ufcx.h:73-80)
    qpc, N, rotations, reflections,
    \* look-ups into ufcx_form.finite_element_hashes (ufcx.h:203-226)
    hpc, rank, num_coefficients, index, denoted,
    \* generation of the integral arrays of a ufcx_form (ufcx.h:228-235)
    fpc, ir, form_integrals, form_integral_ids, form_integral_offsets,
    \* two invocations of tabulation kernels (ufcx.h:53-119)
    kpc, scalar, itype, buf, args, regs, reads, ret,
    \* a structure written by the generated code and read by its consumer
    \* (ufcx.h:121-237)
    lpc, struct, abi, seed, cursor, mem, written, readback

versionVars == <<vpc, version, macroBody, tokens>>
permVars    == <<qpc, N, rotations, reflections>>
hashVars    == <<hpc, rank, num_coefficients, index, denoted>>
formVars    == <<fpc, ir, form_integrals, form_integral_ids,
                 form_integral_offsets>>
kernelVars  == <<kpc, scalar, itype, buf, args, regs, reads, ret>>
layoutVars  == <<lpc, struct, abi, seed, cursor, mem, written, readback>>
vars        == <<versionVars, permVars, hashVars, formVars, kernelVars,
                 layoutVars>>

\* The variables each part leaves alone.
notVersion == <<permVars, hashVars, formVars, kernelVars, layoutVars>>
notPerm    == <<versionVars, hashVars, formVars, kernelVars, layoutVars>>
notHash    == <<versionVars, permVars, formVars, kernelVars, layoutVars>>
notForm    == <<versionVars, permVars, hashVars, kernelVars, layoutVars>>
notKernel  == <<versionVars, permVars, hashVars, formVars, layoutVars>>
notLayout  == <<versionVars, permVars, hashVars, formVars, kernelVars>>

-----------------------------------------------------------------------------
(* Bounds *)

MaxVersionNumber == 9
MaxRank == 3
MaxCoefficients == 5
MaxIntegrals == 3
MaxSubdomainId == 1
MaxValue == 1
MaxCode == 1
MaxSeed == 3

-----------------------------------------------------------------------------
(* Version macros, ufcx.h:13-24 *)

UFCX_VERSION_MAJOR == 0
UFCX_VERSION_MINOR == 9
UFCX_VERSION_MAINTENANCE == 0
UFCX_VERSION_RELEASE == 0

\* Preprocessing tokens: identifiers, pp-numbers and string literals, each
\* with its spelling (for a string literal, the characters between the quotes).
Id(s)  == [t |-> "id", v |-> s]
Num(n) == [t |-> "num", v |-> ToString(n)]
Str(s) == [t |-> "str", v |-> s]

\* The replacement list of an object-like macro holding a version number:
\* `#define UFCX_VERSION_MAJOR 0' is the single pp-number 0, not a string.
NumberMacro(ver, name) ==
    CASE name = "UFCX_VERSION_MAJOR"       -> <<Num(ver.major)>>
      [] name = "UFCX_VERSION_MINOR"       -> <<Num(ver.minor)>>
      [] name = "UFCX_VERSION_MAINTENANCE" -> <<Num(ver.maintenance)>>
      [] name = "UFCX_VERSION_RELEASE"     -> <<Num(ver.release)>>

MacroNames == {"UFCX_VERSION_MAJOR", "UFCX_VERSION_MINOR",
               "UFCX_VERSION_MAINTENANCE", "UFCX_VERSION_RELEASE"}

\* The common part of both definitions of UFCX_VERSION (lines 20 and 23).
VersionTriple ==
    <<Id("UFCX_VERSION_MAJOR"), Str("."), Id("UFCX_VERSION_MINOR"), Str("."),
      Id("UFCX_VERSION_MAINTENANCE")>>

\* #if UFCX_VERSION_RELEASE ... #else ... #endif: the replacement list of
\* UFCX_VERSION that the conditional keeps.
UFCX_VERSION(ver) ==
    IF ver.release # 0 THEN VersionTriple
                       ELSE VersionTriple \o <<Str(".dev0")>>

\* Positions of tokens still to be macro-replaced, and of string literals
\* directly followed by another string literal.
MacroPositions(toks) ==
    {i \in 1..Len(toks) : toks[i].t = "id" /\ toks[i].v \in MacroNames}
AdjacentStrings(toks) ==
    {i \in 1..(Len(toks) - 1) : toks[i].t = "str" /\ toks[i + 1].t = "str"}

Min(S) == CHOOSE x \in S : \A y \in S : x <= y

\* Rescanning: the leftmost macro name is replaced by its replacement list.
ReplaceAt(toks, i, repl) ==
    SubSeq(toks, 1, i - 1) \o repl \o SubSeq(toks, i + 1, Len(toks))

\* Translation phase 6: two adjacent string literals become one.
ConcatAt(toks, i) ==
    SubSeq(toks, 1, i - 1) \o <<Str(toks[i].v \o toks[i + 1].v)>>
        \o SubSeq(toks, i + 2, Len(toks))

RECURSIVE ConcatAll(_)
ConcatAll(toks) ==
    IF AdjacentStrings(toks) = {} THEN toks
    ELSE ConcatAll(ConcatAt(toks, Min(AdjacentStrings(toks))))

VersionNumbers == 0..MaxVersionNumber

IdleVersion ==
    /\ vpc = "idle"
    /\ version = [major |-> UFCX_VERSION_MAJOR, minor |-> UFCX_VERSION_MINOR,
                  maintenance |-> UFCX_VERSION_MAINTENANCE,
                  release |-> UFCX_VERSION_RELEASE]
    /\ macroBody = <<>>
    /\ tokens = <<>>

InitVersion ==
    /\ vpc = "conditional"
    /\ version \in [major : VersionNumbers, minor : VersionNumbers,
                    maintenance : VersionNumbers, release : {0, 1}]
    /\ macroBody = <<>>
    /\ tokens = <<>>

\* Lines 18-24: the conditional selects one definition of UFCX_VERSION.
DefineVersion ==
    /\ vpc = "conditional"
    /\ macroBody' = UFCX_VERSION(version)
    /\ vpc' = "defined"
    /\ UNCHANGED <<version, tokens, notVersion>>

\* A translation unit uses UFCX_VERSION: the name is replaced by its body.
UseVersion ==
    /\ vpc = "defined"
    /\ tokens' = macroBody
    /\ vpc' = "rescan"
    /\ UNCHANGED <<version, macroBody, notVersion>>

\* The body is rescanned for further macro names.
Rescan ==
    /\ vpc = "rescan"
    /\ MacroPositions(tokens) # {}
    /\ LET i == Min(MacroPositions(tokens))
       IN  tokens' = ReplaceAt(tokens, i, NumberMacro(version, tokens[i].v))
    /\ UNCHANGED <<vpc, version, macroBody, notVersion>>

RescanDone ==
    /\ vpc = "rescan"
    /\ MacroPositions(tokens) = {}
    /\ vpc' = "concat"
    /\ UNCHANGED <<version, macroBody, tokens, notVersion>>

\* Translation phase 6 over the whole use: adjacent string literals are
\* concatenated until no two are adjacent.
Concatenate ==
    /\ vpc = "concat"
    /\ tokens' = ConcatAll(tokens)
    /\ vpc' = "done"
    /\ UNCHANGED <<version, macroBody, notVersion>>

NextVersion ==
    \/ DefineVersion
    \/ UseVersion
    \/ Rescan
    \/ RescanDone
    \/ Concatenate

-----------------------------------------------------------------------------
(* quadrature_permutation codes, ufcx.h:73-89 *)

\* quadrature_permutation points to uint8_t values.
UINT8_MAX == 255

\* Mutant of Rotations: N / 2 rounded up instead of down.
RotationsRoundedUp(n) == (n + 1) \div 2

\* "floor(N / 2) gives the number of rotations to apply to the facet"
Rotations(n) == n \div 2

\* "N % 2 gives the number of reflections to apply to the facet"
Reflections(n) == n % 2

IdlePerm ==
    /\ qpc = "idle"
    /\ N = 0
    /\ rotations = 0
    /\ reflections = 0

InitPerm ==
    /\ qpc = "passed"
    /\ N \in 0..UINT8_MAX
    /\ rotations = 0
    /\ reflections = 0

\* The receiver of a code works out the rotations and reflections.
Decode ==
    /\ qpc = "passed"
    /\ rotations' = Rotations(N)
    /\ reflections' = Reflections(N)
    /\ qpc' = "decoded"
    /\ UNCHANGED <<N, notPerm>>

NextPerm == Decode

-----------------------------------------------------------------------------
(* ufcx_form.finite_element_hashes, ufcx.h:203-226 *)

Argument(i)    == [what |-> "argument", number |-> i]
Coefficient(j) == [what |-> "coefficient", number |-> j]

\* Mutant of IsArgument: the upper limit taken inclusive.
IsArgumentInclusive(i, r, n) == 0 <= i /\ i <= r

\* "@param i Argument number if 0 <= i < r"
IsArgument(i, r, n) == 0 <= i /\ i < r

\* "Coefficient number j = i - r if r + j <= i < r + n", j one of the n
\* coefficients of the form.
IsCoefficient(i, j, r, n) ==
    /\ j \in 0..(n - 1)
    /\ j = i - r
    /\ r + j <= i
    /\ i < r + n

\* Everything entry i of finite_element_hashes is the hash of.
Denotes(i, r, n) ==
    {Argument(a) : a \in IF IsArgument(i, r, n) THEN {i} ELSE {}}
        \cup {Coefficient(j) : j \in {k \in 0..(n - 1) : IsCoefficient(i, k, r, n)}}

IdleHash ==
    /\ hpc = "idle"
    /\ rank = 0
    /\ num_coefficients = 0
    /\ index = 0
    /\ denoted = {}

InitHash ==
    /\ hpc = "form"
    /\ rank \in 0..MaxRank
    /\ num_coefficients \in 0..MaxCoefficients
    /\ index = 0
    /\ denoted = {}

\* A consumer reads finite_element_hashes[i], 0 <= i < r + n.
Lookup ==
    /\ hpc \in {"form", "looked"}
    /\ \E i \in 0..(rank + num_coefficients - 1) :
          /\ index' = i
          /\ denoted' = Denotes(i, rank, num_coefficients)
    /\ hpc' = "looked"
    /\ UNCHANGED <<rank, num_coefficients, notHash>>

NextHash == Lookup

-----------------------------------------------------------------------------
(* Integral kinds and the integral arrays of ufcx_form, ufcx.h:44-49, 228-235 *)

\* Mutant of ufcx_integral_type: the enumerators numbered from one.
ufcx_integral_type_from_one ==
    [cell |-> 1, exterior_facet |-> 2, interior_facet |-> 3]

ufcx_integral_type == [cell |-> 0, exterior_facet |-> 1, interior_facet |-> 2]

IntegralTypes == {ufcx_integral_type[e] : e \in DOMAIN ufcx_integral_type}

\* The kinds in the order the arrays list them: enum order, by value.
RECURSIVE Ascending(_)
Ascending(S) ==
    IF S = {} THEN <<>> ELSE <<Min(S)>> \o Ascending(S \ {Min(S)})

\* Mutant of KindOrder: "cell, interior facet and exterior facet", the order
\* in which the comments on the arrays name the kinds.
KindOrderAsNamed ==
    <<ufcx_integral_type.cell, ufcx_integral_type.interior_facet,
      ufcx_integral_type.exterior_facet>>

KindOrder == Ascending(IntegralTypes)

\* Mutant of NextOffset: the number of integrals of the kind just listed.
NextOffsetOfKind(integrals, kind) ==
    Cardinality({i \in 1..Len(integrals) : integrals[i].type = kind})

\* The offset recorded when the integrals of one kind have been listed: the
\* number of integrals listed so far.
NextOffset(integrals, kind) == Len(integrals)

\* Subdomain ids; -1 is the integral over everything not otherwise marked.
SubdomainIds == (-1)..MaxSubdomainId

\* An integral of the form being generated: its kind and its subdomain id.
Integrals == [type : IntegralTypes, id : SubdomainIds]

Emitted == {form_integrals[i] : i \in 1..Len(form_integrals)}

IdleForm ==
    /\ fpc = 0
    /\ ir = {}
    /\ form_integrals = <<>>
    /\ form_integral_ids = <<>>
    /\ form_integral_offsets = <<>>

InitForm ==
    /\ fpc = 1
    /\ ir \in {S \in SUBSET Integrals : Cardinality(S) <= MaxIntegrals}
    /\ form_integrals = <<>>
    /\ form_integral_ids = <<>>
    /\ form_integral_offsets = <<0>>

\* One more integral of the kind being listed goes into form_integrals, and
\* its id into form_integral_ids at the same position.
EmitIntegral ==
    /\ fpc \in 1..Len(KindOrder)
    /\ \E itg \in ir \ Emitted :
          /\ itg.type = KindOrder[fpc]
          /\ form_integrals' = Append(form_integrals, itg)
          /\ form_integral_ids' = Append(form_integral_ids, itg.id)
    /\ UNCHANGED <<fpc, ir, form_integral_offsets, notForm>>

\* Every integral of the kind has been listed: its end offset is recorded
\* and the next kind begins.
CloseKind ==
    /\ fpc \in 1..Len(KindOrder)
    /\ \A itg \in ir \ Emitted : itg.type # KindOrder[fpc]
    /\ form_integral_offsets' =
          Append(form_integral_offsets, NextOffset(form_integrals, KindOrder[fpc]))
    /\ fpc' = fpc + 1
    /\ UNCHANGED <<ir, form_integrals, form_integral_ids, notForm>>

NextForm ==
    \/ EmitIntegral
    \/ CloseKind

\* The form is constructed once all kinds are closed.
Constructed == fpc = Len(KindOrder) + 1

-----------------------------------------------------------------------------
(* Tabulation kernels, ufcx.h:53-119 *)

Param(name, type, const) == [name |-> name, type |-> type, const |-> const]

\* The shape the four typedefs share: scalar type T for A, w and c, the real
\* type R of T for coordinate_dofs.
KernelSignature(T, R) ==
    [ret    |-> "void",
     params |-> <<Param("A", T, FALSE), Param("w", T, TRUE), Param("c", T, TRUE),
                  Param("coordinate_dofs", R, TRUE),
                  Param("entity_local_index", "int", TRUE),
                  Param("quadrature_permutation", "uint8_t", TRUE)>>]

\* Mutant of ufcx_tabulate_tensor_float32: w without its const.
ufcx_tabulate_tensor_float32_writable_w ==
    [KernelSignature("float", "float") EXCEPT !.params[2].const = FALSE]

\* Mutant of ufcx_tabulate_tensor_float64: an int status is returned.
ufcx_tabulate_tensor_float64_returning_int ==
    [KernelSignature("double", "double") EXCEPT !.ret = "int"]

ufcx_tabulate_tensor_float32 == KernelSignature("float", "float")
ufcx_tabulate_tensor_float64 == KernelSignature("double", "double")
ufcx_tabulate_tensor_complex64 == KernelSignature("float _Complex", "float")
ufcx_tabulate_tensor_complex128 == KernelSignature("double _Complex", "double")

ScalarTypes == {"float32", "float64", "complex64", "complex128"}

Signature(t) ==
    CASE t = "float32"    -> ufcx_tabulate_tensor_float32
      [] t = "float64"    -> ufcx_tabulate_tensor_float64
      [] t = "complex64"  -> ufcx_tabulate_tensor_complex64
      [] t = "complex128" -> ufcx_tabulate_tensor_complex128

ParamsOf(sig) == {sig.params[i] : i \in 1..Len(sig.params)}

\* What a kernel may write through: the parameters not pointing to const.
Writable(sig) == {prm.name : prm \in {q \in ParamsOf(sig) : ~q.const}}

\* A pointer argument is the array it points to; a null pointer points to
\* nothing.
NULL == <<>>

Invocations == {1, 2}

\* "entity_local_index Local index of mesh entity on which to tabulate. This
\* applies to facet integrals."
ReadsEntity(type) ==
    type \in {ufcx_integral_type.exterior_facet, ufcx_integral_type.interior_facet}

\* Mutant of ReadsPermutation: "For facet integrals, numbers to indicate the
\* permutation ... should be passed in" read as all facet integrals.
ReadsPermutationOnFacets(type) ==
    type \in {ufcx_integral_type.exterior_facet, ufcx_integral_type.interior_facet}

\* "For integrals not on interior facets, this argument has no effect and a
\* null pointer can be passed. For interior facets the array will have size 2"
ReadsPermutation(type) == type = ufcx_integral_type.interior_facet

\* The entries a kernel of the given kind reads, in order.
Loads(type) ==
    <<[param |-> "w", index |-> 1], [param |-> "c", index |-> 1],
      [param |-> "coordinate_dofs", index |-> 1]>>
        \o (IF ReadsEntity(type)
             THEN <<[param |-> "entity_local_index", index |-> 1]>> ELSE <<>>)
        \o (IF ReadsPermutation(type)
             THEN <<[param |-> "quadrature_permutation", index |-> 1],
                    [param |-> "quadrature_permutation", index |-> 2]>>
             ELSE <<>>)

Valid(b, ld) == ld.index \in DOMAIN b[ld.param]

\* The values the loads yield; a load through a null pointer or past the end
\* of an array yields nothing defined, written -1.
Inputs(type, b) ==
    [i \in 1..Len(Loads(type)) |->
        IF Valid(b, Loads(type)[i]) THEN b[Loads(type)[i].param][Loads(type)[i].index]
                                    ELSE -1]

\* The tensor a kernel of the given kind tabulates from the values it read.
\* The function is left uninterpreted: the tensor is the kind and the values.
Tabulated(type, values) == <<type>> \o values

\* The tensor as the caller passes it, zeroed.
Untabulated == <<0>>

\* The automatic storage of invocation p.
Slot(p) == p

\* The buffers a caller may pass to a kernel of the given kind: w, c and
\* coordinate_dofs with one entry each, an entity for facet integrals, two
\* permutation codes for interior facets and any or none otherwise.
CallerBuffers(p, type) ==
    LET codes == {<<a, b>> : a \in 0..MaxCode, b \in 0..MaxCode}
    IN  [A : {Untabulated},
         w : {<<v>> : v \in 0..MaxValue},
         c : {<<2 * p>>},
         coordinate_dofs : {<<2 * p + 1>>},
         entity_local_index :
             IF type = ufcx_integral_type.cell THEN {NULL} ELSE {<<p - 1>>},
         quadrature_permutation :
             IF type = ufcx_integral_type.interior_facet THEN codes
                                                          ELSE codes \cup {NULL}]

IdleKernel ==
    /\ kpc = [p \in Invocations |-> "idle"]
    /\ scalar = "float64"
    /\ itype = [p \in Invocations |-> ufcx_integral_type.cell]
    /\ buf = [p \in Invocations |-> <<>>]
    /\ args = [p \in Invocations |-> <<>>]
    /\ regs = [p \in Invocations |-> <<>>]
    /\ reads = [p \in Invocations |-> {}]
    /\ ret = [p \in Invocations |-> "pending"]

\* Both kernels have just been called, each on its own buffers.
InitKernel ==
    /\ kpc = [p \in Invocations |-> "called"]
    /\ scalar \in ScalarTypes
    /\ itype \in [Invocations -> IntegralTypes]
    /\ \E b1 \in CallerBuffers(1, itype[1]), b2 \in CallerBuffers(2, itype[2]) :
          buf = [p \in Invocations |-> IF p = 1 THEN b1 ELSE b2]
    /\ args = buf
    /\ regs = [p \in Invocations |-> <<>>]
    /\ reads = [p \in Invocations |-> {}]
    /\ ret = [p \in Invocations |-> "pending"]

\* The kernel reads its inputs into its own storage. A load that is not
\* valid is undefined behaviour: the invocation may end in any way.
ReadInputs(p) ==
    /\ kpc[p] = "called"
    /\ LET lds == Loads(itype[p])
       IN  /\ reads' = [reads EXCEPT ![p] = {lds[i] : i \in 1..Len(lds)}]
           /\ regs' = [regs EXCEPT ![Slot(p)] = Inputs(itype[p], buf[p])]
           /\ kpc' = [kpc EXCEPT ![p] =
                        IF \A i \in 1..Len(lds) : Valid(buf[p], lds[i])
                        THEN "read" ELSE "undefined"]
    /\ UNCHANGED <<scalar, itype, buf, args, ret, notKernel>>

\* The kernel stores the tensor through A; whatever else its signature lets
\* it write through it may write as well.
WriteTensor(p) ==
    /\ kpc[p] = "read"
    /\ \E W \in SUBSET Writable(Signature(scalar)) :
          /\ "A" \in W
          /\ buf' = [buf EXCEPT ![p] =
                       [prm \in DOMAIN buf[p] |->
                           IF prm \in W THEN Tabulated(itype[p], regs[Slot(p)])
                                        ELSE buf[p][prm]]]
    /\ kpc' = [kpc EXCEPT ![p] = "written"]
    /\ UNCHANGED <<scalar, itype, args, regs, reads, ret, notKernel>>

\* The kernel returns what its return type lets it return.
Return(p) ==
    /\ kpc[p] = "written"
    /\ \E v \in IF Signature(scalar).ret = "void" THEN {"none"}
                                                  ELSE {"status 0", "status 1"} :
          ret' = [ret EXCEPT ![p] = v]
    /\ kpc' = [kpc EXCEPT ![p] = "returned"]
    /\ UNCHANGED <<scalar, itype, buf, args, regs, reads, notKernel>>

KernelStep(p) == ReadInputs(p) \/ WriteTensor(p) \/ Return(p)

NextKernel == \E p \in Invocations : KernelStep(p)

-----------------------------------------------------------------------------
(* The structures and their layout, ufcx.h:121-237 *)

Field(name, type) == [name |-> name, type |-> type]

ufcx_integral ==
    <<Field("enabled_coefficients", "pointer"),
      Field("tabulate_tensor_float32", "pointer"),
      Field("tabulate_tensor_float64", "pointer"),
      Field("tabulate_tensor_complex64", "pointer"),
      Field("tabulate_tensor_complex128", "pointer"),
      Field("needs_facet_permutations", "bool"),
      Field("coordinate_element_hash", "uint64_t")>>

ufcx_expression ==
    <<Field("tabulate_tensor_float32", "pointer"),
      Field("tabulate_tensor_float64", "pointer"),
      Field("tabulate_tensor_complex64", "pointer"),
      Field("tabulate_tensor_complex128", "pointer"),
      Field("num_coefficients", "int"),
      Field("num_constants", "int"),
      Field("original_coefficient_positions", "pointer"),
      Field("coefficient_names", "pointer"),
      Field("constant_names", "pointer"),
      Field("num_points", "int"),
      Field("entity_dimension", "int"),
      Field("points", "pointer"),
      Field("value_shape", "pointer"),
      Field("num_components", "int"),
      Field("rank", "int")>>

ufcx_form ==
    <<Field("signature", "pointer"),
      Field("rank", "int"),
      Field("num_coefficients", "int"),
      Field("num_constants", "int"),
      Field("original_coefficient_positions", "pointer"),
      Field("coefficient_name_map", "pointer"),
      Field("constant_name_map", "pointer"),
      Field("finite_element_hashes", "pointer"),
      Field("form_integrals", "pointer"),
      Field("form_integral_ids", "pointer"),
      Field("form_integral_offsets", "pointer")>>

Structs == {"ufcx_integral", "ufcx_expression", "ufcx_form"}

\* The declaration the generated code is compiled against.
Declaration(s) ==
    CASE s = "ufcx_integral"   -> ufcx_integral
      [] s = "ufcx_expression" -> ufcx_expression
      [] s = "ufcx_form"       -> ufcx_form

\* Mutant of Mirror: the consumer declares the first two fields the other
\* way round.
MirrorReordered(s) ==
    LET d == Declaration(s)
    IN  <<d[2], d[1]>> \o SubSeq(d, 3, Len(d))

\* The declaration the consumer is compiled against: "Changes here must be
\* reflected both in the FFCx code generation and in the DOLFINx library
\* calls", so the same one.
Mirror(s) == Declaration(s)

\* Sizes and alignments are the implementation's: the data models a build of
\* both sides can have.
DataModels == {"LP64", "ILP32 align 4", "ILP32 align 8"}

SizeOf(dm, type) ==
    CASE type = "pointer"  -> IF dm = "LP64" THEN 8 ELSE 4
      [] type = "int"      -> 4
      [] type = "bool"     -> 1
      [] type = "uint64_t" -> 8

AlignOf(dm, type) ==
    CASE type = "pointer"  -> IF dm = "LP64" THEN 8 ELSE 4
      [] type = "int"      -> 4
      [] type = "bool"     -> 1
      [] type = "uint64_t" -> IF dm = "ILP32 align 4" THEN 4 ELSE 8

AlignUp(n, a) == ((n + a - 1) \div a) * a

\* The offset of the i-th member: past the member before it, aligned.
RECURSIVE OffsetOf(_, _, _)
OffsetOf(dm, fields, i) ==
    IF i = 1 THEN 0
    ELSE AlignUp(OffsetOf(dm, fields, i - 1) + SizeOf(dm, fields[i - 1].type),
                 AlignOf(dm, fields[i].type))

Max(S) == CHOOSE x \in S : \A y \in S : y <= x

StructSize(dm, fields) ==
    AlignUp(OffsetOf(dm, fields, Len(fields)) + SizeOf(dm, fields[Len(fields)].type),
            Max({AlignOf(dm, fields[i].type) : i \in 1..Len(fields)}))

\* The bytes of the value given to the i-th member: a bool is 0 or 1, every
\* other member gets bytes that differ from member to member.
ValueOf(dm, fields, i, sd) ==
    IF fields[i].type = "bool" THEN <<(sd + i) % 2>>
    ELSE [b \in 1..SizeOf(dm, fields[i].type) |-> (sd + 16 * i + b) % 256]

\* The object representation: a member is the bytes from its offset on. A
\* byte outside the object is not defined, written -1.
Store(m, at, bytes) ==
    [a \in DOMAIN m |->
        IF at <= a /\ a < at + Len(bytes) THEN bytes[a - at + 1] ELSE m[a]]

Load(m, at, size) ==
    [b \in 1..size |-> IF at + b - 1 \in DOMAIN m THEN m[at + b - 1] ELSE -1]

IdleLayout ==
    /\ lpc = "idle"
    /\ struct = "ufcx_form"
    /\ abi = "LP64"
    /\ seed = 0
    /\ cursor = 0
    /\ mem = <<>>
    /\ written = <<>>
    /\ readback = <<>>

\* A zero-initialised object of the structure.
InitLayout ==
    /\ lpc = "populate"
    /\ struct \in Structs
    /\ abi \in DataModels
    /\ seed \in 0..MaxSeed
    /\ cursor = 1
    /\ mem = [a \in 0..(StructSize(abi, Declaration(struct)) - 1) |-> 0]
    /\ written = <<>>
    /\ readback = <<>>

\* The generated code initialises the next member.
WriteField ==
    /\ lpc = "populate"
    /\ cursor <= Len(Declaration(struct))
    /\ LET d == Declaration(struct)
           v == ValueOf(abi, d, cursor, seed)
       IN  /\ mem' = Store(mem, OffsetOf(abi, d, cursor), v)
           /\ written' = (d[cursor].name :> v) @@ written
    /\ cursor' = cursor + 1
    /\ UNCHANGED <<lpc, struct, abi, seed, readback, notLayout>>

\* The address of the object is passed to the consumer.
PassAddress ==
    /\ lpc = "populate"
    /\ cursor = Len(Declaration(struct)) + 1
    /\ lpc' = "passed"
    /\ cursor' = 1
    /\ UNCHANGED <<struct, abi, seed, mem, written, readback, notLayout>>

\* The consumer reads the next member through its own declaration.
ReadField ==
    /\ lpc = "passed"
    /\ cursor <= Len(Mirror(struct))
    /\ LET d == Mirror(struct)
       IN  readback' =
             (d[cursor].name :>
                 Load(mem, OffsetOf(abi, d, cursor), SizeOf(abi, d[cursor].type)))
                 @@ readback
    /\ cursor' = cursor + 1
    /\ UNCHANGED <<lpc, struct, abi, seed, mem, written, notLayout>>

ReadDone ==
    /\ lpc = "passed"
    /\ cursor = Len(Mirror(struct)) + 1
    /\ lpc' = "read"
    /\ UNCHANGED <<struct, abi, seed, cursor, mem, written, readback, notLayout>>

NextLayout ==
    \/ WriteField
    \/ PassAddress
    \/ ReadField
    \/ ReadDone

-----------------------------------------------------------------------------
(* Specifications *)

VersionInit ==
    InitVersion /\ IdlePerm /\ IdleHash /\ IdleForm /\ IdleKernel
        /\ IdleLayout
PermInit ==
    IdleVersion /\ InitPerm /\ IdleHash /\ IdleForm /\ IdleKernel
        /\ IdleLayout
HashInit ==
    IdleVersion /\ IdlePerm /\ InitHash /\ IdleForm /\ IdleKernel
        /\ IdleLayout
FormInit ==
    IdleVersion /\ IdlePerm /\ IdleHash /\ InitForm /\ IdleKernel
        /\ IdleLayout
KernelInit ==
    IdleVersion /\ IdlePerm /\ IdleHash /\ IdleForm /\ InitKernel
        /\ IdleLayout

SpecVersion == VersionInit /\ [][NextVersion]_vars

SpecPerm == PermInit /\ [][NextPerm]_vars

SpecHash == HashInit /\ [][NextHash]_vars

SpecForm == FormInit /\ [][NextForm]_vars

LayoutInit ==
    IdleVersion /\ IdlePerm /\ IdleHash /\ IdleForm /\ IdleKernel
        /\ InitLayout

SpecLayout == LayoutInit /\ [][NextLayout]_vars

SpecKernel == KernelInit /\ [][NextKernel]_vars


-----------------------------------------------------------------------------
(* Properties *)

\* C3: once a use of UFCX_VERSION is translated it is the one string literal
\* "<major>.<minor>.<maintenance>", followed by ".dev0" exactly when
\* UFCX_VERSION_RELEASE is 0; with the numbers of the header, "0.9.0.dev0".
VersionIsString ==
    vpc = "done" =>
        /\ tokens = <<Str(ToString(version.major) \o "." \o ToString(version.minor)
                          \o "." \o ToString(version.maintenance)
                          \o (IF version.release = 0 THEN ".dev0" ELSE ""))>>
        /\ (version = [major |-> UFCX_VERSION_MAJOR, minor |-> UFCX_VERSION_MINOR,
                       maintenance |-> UFCX_VERSION_MAINTENANCE,
                       release |-> UFCX_VERSION_RELEASE]
                => tokens = <<Str("0.9.0.dev0")>>)

\* C9: a code N decodes to floor(N / 2) rotations and N % 2 reflections; every
\* 8-bit code decodes, the reflections are 0 or 1, N = 2 * rotations +
\* reflections, and no other code decodes to the same pair.
PermutationDecoding ==
    /\ \A M \in 0..UINT8_MAX :
          Rotations(M) \in 0..(UINT8_MAX \div 2) /\ Reflections(M) \in {0, 1}
    /\ qpc = "decoded" =>
          /\ 2 * rotations <= N /\ N < 2 * rotations + 2
          /\ reflections \in {0, 1}
          /\ N = 2 * rotations + reflections
          /\ \A M \in 0..UINT8_MAX :
                (Rotations(M) = rotations /\ Reflections(M) = reflections) => M = N

PermutationDecodingWitness ==
    qpc = "decoded" /\ N = UINT8_MAX /\ rotations = 127 /\ reflections = 1

\* C8: every index i, 0 <= i < r + n, of finite_element_hashes denotes exactly
\* one thing, argument i below r and coefficient i - r from r on, and every
\* argument and every coefficient has exactly one entry.
HashIndexing ==
    LET r == rank
        n == num_coefficients
        entries == 0..(r + n - 1)
    IN  /\ \A i \in entries :
              Denotes(i, r, n) = IF i < r THEN {Argument(i)} ELSE {Coefficient(i - r)}
        /\ \A a \in 0..(r - 1) :
              Cardinality({i \in entries : Argument(a) \in Denotes(i, r, n)}) = 1
        /\ \A j \in 0..(n - 1) :
              Cardinality({i \in entries : Coefficient(j) \in Denotes(i, r, n)}) = 1
        /\ hpc = "looked" => index \in entries /\ Cardinality(denoted) = 1

HashIndexingWitness ==
    /\ hpc = "looked" /\ rank = 2 /\ num_coefficients = 3
    /\ index = 4 /\ denoted = {Coefficient(2)}

\* Entry i (counted from 0) of an array of the form.
At(array, i) == array[i + 1]

OffsetsShape ==
    Constructed =>
        /\ Len(form_integral_offsets) = 4
        /\ \A j \in 1..3 : form_integral_offsets[j] <= form_integral_offsets[j + 1]
        /\ form_integral_offsets[4] = Len(form_integrals)
        /\ form_integral_offsets[4] = Len(form_integral_ids)
        /\ \A j \in 1..4 : /\ 0 <= form_integral_offsets[j]
                            /\ form_integral_offsets[j] <= Len(form_integrals)
                            /\ form_integral_offsets[j] <= Len(form_integral_ids)

OffsetsShapeWitness ==
    Constructed /\ form_integral_offsets = <<0, 1, 1, 3>>

\* C4: ufcx_integral_type has exactly the three members cell = 0,
\* exterior_facet = 1 and interior_facet = 2, pairwise distinct, and each
\* value k indexes form_integral_offsets together with k + 1 <= 3.
EnumIndexesOffsets ==
    /\ DOMAIN ufcx_integral_type = {"cell", "exterior_facet", "interior_facet"}
    /\ ufcx_integral_type.cell = 0
    /\ ufcx_integral_type.exterior_facet = 1
    /\ ufcx_integral_type.interior_facet = 2
    /\ Cardinality(IntegralTypes) = 3
    /\ \A k \in IntegralTypes : 0 <= k /\ k + 1 <= 3
    /\ Constructed =>
          \A k \in IntegralTypes :
              {k + 1, k + 2} \subseteq DOMAIN form_integral_offsets

EnumIndexesOffsetsWitness ==
    /\ Constructed
    /\ At(form_integral_offsets, ufcx_integral_type.interior_facet)
          < At(form_integral_offsets, ufcx_integral_type.interior_facet + 1)

InputParams ==
    {"w", "c", "coordinate_dofs", "entity_local_index", "quadrature_permutation"}

\* Names a member or parameter that reports failure would go by.
FailureNames ==
    {"error", "err", "errno", "error_code", "status", "status_code", "failed",
     "success", "result"}

FieldNames(s) == {Declaration(s)[i].name : i \in 1..Len(Declaration(s))}

\* C5: every kernel signature returns void and has A as its only parameter
\* to write through, no parameter and no member of the three structures is
\* an error or status, and an invocation on well-formed buffers can always
\* go on until it has returned, returning no value.
NoFailureChannel ==
    /\ \A t \in ScalarTypes :
          /\ Signature(t).ret = "void"
          /\ Writable(Signature(t)) = {"A"}
          /\ {prm.name : prm \in ParamsOf(Signature(t))} \cap FailureNames = {}
    /\ \A s \in Structs : FieldNames(s) \cap FailureNames = {}
    /\ \A p \in Invocations :
          /\ kpc[p] \in {"called", "read", "written", "returned"}
          /\ kpc[p] # "returned" => ret[p] = "pending" /\ ENABLED KernelStep(p)
          /\ kpc[p] = "returned" => ret[p] = "none"

NoFailureChannelWitness ==
    \A p \in Invocations : kpc[p] = "returned" /\ ret[p] = "none"

\* C6: an invocation changes nothing but its own A: w, c, coordinate_dofs,
\* entity_local_index and quadrature_permutation stay as passed, what the
\* kernel holds is what it read from its own buffers, and the tensor it
\* leaves in A is the one tabulated from its own inputs, however the two
\* invocations interleave.
KernelFrame ==
    \A p \in Invocations :
        /\ \A prm \in InputParams : buf[p][prm] = args[p][prm]
        /\ kpc[p] \in {"called", "read"} => buf[p].A = args[p].A
        /\ kpc[p] \in {"read", "written", "returned"} =>
              regs[p] = Inputs(itype[p], args[p])
        /\ kpc[p] \in {"written", "returned"} =>
              buf[p].A = Tabulated(itype[p], Inputs(itype[p], args[p]))

KernelFrameWitness ==
    /\ \A p \in Invocations : kpc[p] = "returned"
    /\ itype[1] # itype[2]
    /\ buf[1].A # buf[2].A
    /\ buf[1].A # args[1].A

\* C10: a kernel not on interior facets never reads quadrature_permutation,
\* which may be null, and tabulates what it would with a null pointer; for a
\* kernel on interior facets the array has two codes and both are read.
PermutationByKind ==
    \A p \in Invocations :
        LET permLoads == {ld \in reads[p] : ld.param = "quadrature_permutation"}
        IN  IF itype[p] # ufcx_integral_type.interior_facet
            THEN /\ permLoads = {}
                 /\ kpc[p] # "undefined"
                 /\ kpc[p] \in {"written", "returned"} =>
                       buf[p].A =
                         Tabulated(itype[p],
                           Inputs(itype[p],
                             [args[p] EXCEPT !.quadrature_permutation = NULL]))
            ELSE /\ Len(args[p].quadrature_permutation) = 2
                 /\ kpc[p] # "called" => {ld.index : ld \in permLoads} = {1, 2}

PermutationByKindWitness ==
    /\ \A p \in Invocations : kpc[p] = "returned"
    /\ itype[1] = ufcx_integral_type.exterior_facet
    /\ args[1].quadrature_permutation = NULL
    /\ itype[2] = ufcx_integral_type.interior_facet
    /\ args[2].quadrature_permutation = <<1, 0>>

====
